---- MODULE Spec2Model ----
(***************************************************************************)
(* tap-bolddesk: the pagination, rate-limit backoff and replication-state  *)
(* behaviour of BoldDeskStream / TicketsStream (src/tap_bolddesk).         *)
(* SpecChild adds the messages stream, the child of the tickets stream.    *)
(*                                                                         *)
(* The classes of the tap override a handful of hooks of singer_sdk's      *)
(* RESTStream; the loop that calls the hooks (request_records, the backoff *)
(* decorator, the state bookkeeping of an unsorted INCREMENTAL stream) is  *)
(* inherited.  Each definition below names the hook or attribute of the    *)
(* tap it models; where an inherited default decides the behaviour the     *)
(* comment says which default that is.                                     *)
(*                                                                         *)
(* Timestamps are integers in milliseconds.  NoTime stands for Python's    *)
(* None (no bookmark, no start_date, no Q parameter).                      *)
(***************************************************************************)
EXTENDS Integers, Sequences, FiniteSets, TLC

VARIABLES
    tickets,      \* server: tickets[t] = number of tickets whose lastUpdatedOn is t
    start_date,   \* config["start_date"] (NoTime when not configured)
    state,        \* the stream's bookmark: replication_key_value and progress marker
    pc,           \* "Idle", "Fetching", "ErrorRecovery", "Emitting", "Done", "Fatal"
    fatal,        \* why the run is Fatal ("" while it is not)
    startW,       \* replication_key_value that was persisted when the run began
    starting,     \* starting_replication_value of the run (get_starting_timestamp)
    page,         \* paginator.current_value
    requested,    \* page numbers request_records prepared a request for, in order
    request,      \* URL parameters of the prepared request
    attempts,     \* how often the prepared request has been sent
    rateLimited,  \* how many of those attempts were answered 429
    lastStatus,   \* status of the latest response of the run (0: none yet)
    lastWait,     \* result of the latest backoff computation
    emitted,      \* emitted[t] = tickets with lastUpdatedOn t emitted in this run
    committed,    \* page numbers whose records were all emitted in this run
    stopW,        \* bookmark persisted before the latest stopped run (history)
    afterStop,    \* TRUE between a stopped run and the next completed run (history)
    fn_in,        \* input of a function evaluated on its own (SpecPaginator, SpecBackoff)
    fn_out,       \* its result
    catalog,      \* SpecChild: the ticket records the tickets stream yields, in order
    msgs,         \* SpecChild: msgs[id] = number of messages of ticket id on the server
    countsAlways, \* SpecChild: the server reports count also when not asked to
    cpc,          \* SpecChild: "Off", "Parent", "Child", "End", "Aborted"
    parents,      \* ticketIds of the ticket records emitted so far, in order
    visits,       \* ticketIds the messages stream was synced for so far, in order
    context,      \* context of the messages sync under way (or of the latest one)
    cpage,        \* current_value of the paginator of that sync
    crequests,    \* the requests of that sync, in order: addressed ticket and parameters
    cdelivered,   \* the page numbers the server delivered on them, in order
    partitions    \* partition contexts in the persisted state of the messages stream

vars == << tickets, start_date, state, pc, fatal, startW, starting, page, requested,
           request, attempts, rateLimited, lastStatus, lastWait, emitted, committed,
           stopW, afterStop, fn_in, fn_out, catalog, msgs, countsAlways, cpc, parents,
           visits, context, cpage, crequests, cdelivered, partitions >>

childVars == << catalog, msgs, countsAlways, cpc, parents, visits, context, cpage,
                crequests, cdelivered, partitions >>

mainVars == << tickets, start_date, state, pc, fatal, startW, starting, page, requested,
               request, attempts, rateLimited, lastStatus, lastWait, emitted, committed,
               stopW, afterStop >>

NoTime == 0 - 1

Max2(a, b) == IF a >= b THEN a ELSE b
Min2(a, b) == IF a <= b THEN a ELSE b

(***************************************************************************)
(* Bounds of the model.                                                    *)
(***************************************************************************)
MaxCount == 350       \* largest "count" a response reports (SpecPaginator)
MaxPage == 5          \* largest current page has_more is evaluated at (SpecPaginator)
MaxNowHalf == 6       \* clock readings 0, 500, ... ms (SpecBackoff)
MaxResetHalf == 80    \* reset timestamps 0, 500, ... ms (SpecBackoff)

(***************************************************************************)
(* BoldDeskPaginator (client.py 20-35).                                    *)
(***************************************************************************)
per_page == 100

\* data.get("count", 0)
ResponseCount(response) == IF response.has_count THEN response.count ELSE 0

\* total_pages = (count + per_page - 1) // per_page
\* variant: floor division
total_pages_floor(count) == count \div per_page
total_pages(count) == (count + per_page - 1) \div per_page

\* has_more(response), with self.current_value passed in
\* variant: <= in place of <
has_more_inclusive(response, current_value) ==
    current_value <= total_pages(ResponseCount(response))
has_more(response, current_value) ==
    current_value < total_pages(ResponseCount(response))

\* a paginator that stays on its page
get_next_stuck(current_value) == current_value

\* BasePageNumberPaginator.get_next, which BoldDeskPaginator inherits
get_next(current_value) == current_value + 1

(***************************************************************************)
(* backoff_wait_generator._backoff_from_headers (client.py 126-168).       *)
(*                                                                         *)
(* A retriable error is [has_response, status, header].  The header        *)
(* x-rate-limit-reset is [kind, wall, offset]:                             *)
(*   "absent"   headers.get returns None                                   *)
(*   "empty"    the empty string                                           *)
(*   "garbage"  a string datetime.fromisoformat rejects                    *)
(*   "naive"    an ISO timestamp without a timezone: wall                  *)
(*   "zulu"     an ISO timestamp with the suffix Z: wall, UTC              *)
(*   "offset"   an ISO timestamp with a numeric UTC offset: wall+offset    *)
(* The result is [raised, value]: raised when the function lets an         *)
(* exception escape.                                                       *)
(***************************************************************************)
MsPerSec == 1000
BufferSec == 2

UtcOffsets == {0 - 60000, 60000}

NoHeader == [kind |-> "absent", wall |-> 0, offset |-> 0]

\* datetime.fromisoformat(reset_time_str.replace("Z", "+00:00")):
\* [ok, aware, instant]; instant is the UTC instant of an aware result
ParseReset(header) ==
    CASE header.kind = "zulu"   -> [ok |-> TRUE, aware |-> TRUE, instant |-> header.wall]
      [] header.kind = "offset" -> [ok |-> TRUE, aware |-> TRUE,
                                    instant |-> header.wall - header.offset]
      [] header.kind = "naive"  -> [ok |-> TRUE, aware |-> FALSE, instant |-> header.wall]
      [] OTHER                  -> [ok |-> FALSE, aware |-> FALSE, instant |-> 0]

\* int(max(wait_time + 2, 0)) for wait_time = delta_ms / 1000 seconds
\* variant: the 2 s buffer left out
WaitFromDelta_nobuffer(delta_ms) ==
    IF delta_ms <= 0 THEN 0 ELSE delta_ms \div MsPerSec
WaitFromDelta(delta_ms) ==
    IF delta_ms + BufferSec * MsPerSec <= 0
    THEN 0
    ELSE (delta_ms + BufferSec * MsPerSec) \div MsPerSec

\* variant: the test for status 429 left out
backoff_from_headers_any_status(err, now) ==
    IF ~err.has_response
    THEN [raised |-> TRUE, value |-> 0]
    ELSE IF err.header.kind \notin {"absent", "empty"}
              /\ ParseReset(err.header).ok /\ ParseReset(err.header).aware
         THEN [raised |-> FALSE,
               value |-> WaitFromDelta(ParseReset(err.header).instant - now)]
         ELSE [raised |-> FALSE, value |-> 0]
backoff_from_headers(err, now) ==
    IF ~err.has_response
    THEN \* response is None (or missing): response.status_code raises AttributeError
         [raised |-> TRUE, value |-> 0]
    ELSE IF err.status = 429 /\ err.header.kind \notin {"absent", "empty"}
         THEN LET parsed == ParseReset(err.header) IN
              IF ~parsed.ok
              THEN \* ValueError, caught
                   [raised |-> FALSE, value |-> 0]
              ELSE IF ~parsed.aware
              THEN \* reset_time - current_time: TypeError, caught
                   [raised |-> FALSE, value |-> 0]
              ELSE [raised |-> FALSE, value |-> WaitFromDelta(parsed.instant - now)]
         ELSE [raised |-> FALSE, value |-> 0]

(***************************************************************************)
(* The server and the tap's configuration.                                 *)
(*                                                                         *)
(* Tickets are counted per lastUpdatedOn value.  Between runs tickets are  *)
(* created and modified (a modified ticket moves to a later timestamp);    *)
(* during a run the result set is fixed.  The server honours Q, OrderBy,   *)
(* sort, PerPage and Page, and reports the number of matching tickets as   *)
(* "count".                                                                *)
(***************************************************************************)
MaxInitBlocks == 2    \* Spec: the server holds 0..MaxInitBlocks batches of 100 tickets
MaxBlocks == 1        \* SpecSync: at most this many batches of 100 tickets
MaxSingles == 1       \* at most this many further single tickets
MaxPartial == 1       \* records of a page emitted before an interrupt: 0..MaxPartial

\* the lastUpdatedOn values that occur: two seconds, each with and without a
\* millisecond part
Times == {0, 500, 1000, 1500}
FirstTime == CHOOSE t \in Times : \A u \in Times : t <= u
LastTime == CHOOSE t \in Times : \A u \in Times : t >= u
StartDates == {NoTime, MsPerSec}

RECURSIVE SumOver(_, _)
SumOver(f, S) ==
    IF S = {} THEN 0
    ELSE LET x == CHOOSE y \in S : TRUE IN f[x] + SumOver(f, S \ {x})

Blocks(tk) == SumOver([t \in Times |-> tk[t] \div per_page], Times)
Singles(tk) == SumOver([t \in Times |-> tk[t] % per_page], Times)

\* does a ticket with lastUpdatedOn t satisfy Q=updatedon:{"from":...} ?
Matches(t, req) == req.Q_from = NoTime \/ t >= req.Q_from

\* is u delivered before t under the requested sort ?
Before(u, t, req) == IF req.sort = "desc" THEN u > t ELSE u < t

MatchCount(tk, req) ==
    SumOver([t \in Times |-> IF Matches(t, req) THEN tk[t] ELSE 0], Times)

RankBefore(tk, t, req) ==
    SumOver([u \in Times |-> IF Matches(u, req) /\ Before(u, t, req) THEN tk[u] ELSE 0],
            Times)

\* the page the server delivers: Page omitted means the first page
PageAsked(req) == IF req.Page = 0 THEN 1 ELSE req.Page

\* how many tickets with timestamp t lie at positions lo..hi of the result set
InRange(tk, t, req, lo, hi) ==
    IF ~Matches(t, req) THEN 0
    ELSE LET first == RankBefore(tk, t, req) + 1
             last  == RankBefore(tk, t, req) + tk[t]
         IN  Max2(0, Min2(last, hi) - Max2(first, lo) + 1)

PageLo(req) == (PageAsked(req) - 1) * req.PerPage + 1
PageHi(req) == PageAsked(req) * req.PerPage

\* "result" of the response, per timestamp, and its length
PageRecords(tk, req) ==
    [t \in Times |-> InRange(tk, t, req, PageLo(req), PageHi(req))]
PageSize(tk, req) == SumOver(PageRecords(tk, req), Times)

\* the first k records of the page
PagePrefix(tk, req, k) ==
    [t \in Times |-> InRange(tk, t, req, PageLo(req), PageLo(req) + k - 1)]

(***************************************************************************)
(* URL parameters.                                                         *)
(***************************************************************************)
PerPage == 100

\* a get_url_params that leaves Page out of the request for the first page
base_url_params_first_omitted(next_page_token) ==
    [PerPage |-> PerPage, RequiresCounts |-> TRUE,
     Page |-> IF next_page_token > 1 THEN next_page_token ELSE 0]

\* BoldDeskStream.get_url_params (client.py 78-87); Page = 0: no Page parameter.
\* A token of None and a token of 0 are both falsy.
base_url_params(next_page_token) ==
    [PerPage |-> PerPage, RequiresCounts |-> TRUE,
     Page |-> IF next_page_token # 0 THEN next_page_token ELSE 0]

\* starting_timestamp.strftime("%Y-%m-%dT%H:%M:%S.000Z"): the instant the
\* formatted string denotes
strftime_from(starting_timestamp) ==
    (starting_timestamp \div MsPerSec) * MsPerSec

\* TicketsStream.get_url_params (streams.py 28-45)
tickets_url_params(next_page_token, starting_timestamp) ==
    [PerPage |-> base_url_params(next_page_token).PerPage,
     RequiresCounts |-> base_url_params(next_page_token).RequiresCounts,
     Page |-> base_url_params(next_page_token).Page,
     OrderBy |-> "lastUpdatedOn",
     sort |-> "desc",
     Q_field |-> IF starting_timestamp # NoTime THEN "updatedon" ELSE "",
     Q_from |-> IF starting_timestamp # NoTime
                THEN strftime_from(starting_timestamp) ELSE NoTime]

NoRequest ==
    [PerPage |-> 0, RequiresCounts |-> FALSE, Page |-> 0, OrderBy |-> "", sort |-> "",
     Q_field |-> "", Q_from |-> NoTime]

(***************************************************************************)
(* Replication state of TicketsStream (streams.py 14-20):                  *)
(* replication_key = "lastUpdatedOn", INCREMENTAL, is_sorted not set.      *)
(* For a stream that does not declare is_sorted the inherited bookkeeping  *)
(* keeps the running value in a progress marker and promotes it to         *)
(* replication_key_value only when the sync has completed; progress        *)
(* markers of an earlier run are wiped when a run starts.                  *)
(***************************************************************************)
NewState == [replication_key_value |-> NoTime, progress |-> NoTime]

\* bookkeeping after one emitted record
\* variant: the stream declared is_sorted (the bookmark itself advances)
increment_state_as_sorted(st, rk_value) ==
    IF st.replication_key_value = NoTime \/ rk_value >= st.replication_key_value
    THEN [st EXCEPT !.replication_key_value = rk_value]
    ELSE st
\* variant: the latest record wins, whatever its value
increment_state_latest(st, rk_value) ==
    [st EXCEPT !.progress = rk_value]
increment_state(st, rk_value) ==
    IF st.progress = NoTime \/ rk_value >= st.progress
    THEN [st EXCEPT !.progress = rk_value]
    ELSE st

\* the records rec[t] (per timestamp) processed in response order
RECURSIVE StateAfterRecords(_, _, _, _)
StateAfterRecords(st, rec, left, req) ==
    IF left = {} THEN st
    ELSE LET t == CHOOSE x \in left : \A y \in left : y = x \/ Before(x, y, req)
         IN  StateAfterRecords(IF rec[t] > 0 THEN increment_state(st, t) ELSE st,
                               rec, left \ {t}, req)

\* end of a completed sync: the progress marker becomes the bookmark
finalize_state(st) ==
    IF st.progress # NoTime
    THEN [replication_key_value |-> st.progress, progress |-> NoTime]
    ELSE st

\* start of a sync: progress markers of an earlier run are dropped
reset_progress(st) == [st EXCEPT !.progress = NoTime]

\* get_starting_timestamp: the bookmark, else config["start_date"]
get_starting_timestamp(st, cfg_start_date) ==
    IF st.replication_key_value # NoTime THEN st.replication_key_value
    ELSE cfg_start_date

\* a get_starting_timestamp that follows the progress marker of the running sync
starting_timestamp_from_progress(st, starting_replication_value) ==
    IF st.progress # NoTime THEN st.progress ELSE starting_replication_value

\* self.get_starting_timestamp(context) as get_url_params calls it for every
\* page (streams.py 39): it reads the starting_replication_value that was
\* written when the sync began, whatever the records have made of the state st
starting_timestamp_of_run(st, starting_replication_value) ==
    starting_replication_value

(***************************************************************************)
(* Response validation and retry budget (client.py 49-53, 99-124).         *)
(* validate_response logs and calls super().validate_response: 429 and    *)
(* 5xx raise RetriableAPIError, other 4xx raise FatalAPIError.  The retry  *)
(* decorator gives up after backoff_max_tries() tries; the tap does not    *)
(* override it and records the same number as max_retries.                 *)
(***************************************************************************)
max_retries == 5

\* variant: one more try
backoff_max_tries_plus_one == max_retries + 1
backoff_max_tries == max_retries

\* variant: every error status is retriable
validate_response_retry_4xx(status) ==
    IF status >= 400 THEN "retriable" ELSE "ok"
validate_response(status) ==
    IF status = 429 \/ status >= 500 THEN "retriable"
    ELSE IF status >= 400 THEN "fatal"
    ELSE "ok"

FatalStatuses == {401, 404}
ServerErrorStatuses == {500}
ErrorStatuses == {429} \cup ServerErrorStatuses \cup FatalStatuses

MainHeaders ==
    {NoHeader,
     [kind |-> "garbage", wall |-> 0, offset |-> 0],
     [kind |-> "zulu", wall |-> 500 * MaxNowHalf, offset |-> 0]}
MainNows == {0, 500 * MaxNowHalf}

(***************************************************************************)
(* One run of the tickets stream: RESTStream.request_records drives the    *)
(* paginator and get_url_params; every record is emitted and counted into  *)
(* the state; a run ends Done (paginator finished) or Fatal.               *)
(***************************************************************************)
NoTickets == [t \in Times |-> 0]

NoProbe == [kind |-> "none"]

Running == pc \in {"Fetching", "ErrorRecovery", "Emitting"}

MainInit ==
    /\ state = NewState
    /\ pc = "Idle"
    /\ fatal = ""
    /\ startW = NoTime
    /\ starting = NoTime
    /\ page = 0
    /\ requested = << >>
    /\ request = NoRequest
    /\ attempts = 0
    /\ rateLimited = 0
    /\ lastStatus = 0
    /\ lastWait = 0
    /\ emitted = NoTickets
    /\ committed = {}
    /\ stopW = NoTime
    /\ afterStop = FALSE

\* the tickets stream on its own: no child sync is modelled
ChildOff ==
    /\ catalog = << >>
    /\ msgs = << >>
    /\ countsAlways = FALSE
    /\ cpc = "Off"
    /\ parents = << >>
    /\ visits = << >>
    /\ context = << >>
    /\ cpage = 0
    /\ crequests = << >>
    /\ cdelivered = << >>
    /\ partitions = {}

\* a server holding k batches of the latest timestamp and j single tickets of
\* the earliest one
InitialTickets(k, j) ==
    [t \in Times |-> (IF t = LastTime THEN k * per_page ELSE 0)
                     + (IF t = FirstTime THEN j ELSE 0)]

\* Spec: runs of the tickets stream, with every kind of response, against a
\* server whose tickets do not change
Init ==
    /\ MainInit
    /\ \E k \in 0..MaxInitBlocks, j \in 0..MaxSingles : tickets = InitialTickets(k, j)
    /\ start_date \in StartDates
    /\ fn_in = NoProbe
    /\ fn_out = NoProbe
    /\ ChildOff

\* SpecSync: runs of the tickets stream against a server that starts empty and
\* whose tickets are created and modified between the runs
InitSync ==
    /\ MainInit
    /\ tickets = NoTickets
    /\ start_date \in StartDates
    /\ fn_in = NoProbe
    /\ fn_out = NoProbe
    /\ ChildOff

\* the server gains n tickets with lastUpdatedOn t
CreateTickets(t, n) ==
    /\ pc = "Idle"
    /\ IF n = 1 THEN Singles(tickets) < MaxSingles ELSE Blocks(tickets) < MaxBlocks
    /\ tickets' = [tickets EXCEPT ![t] = @ + n]
    /\ UNCHANGED << start_date, state, pc, fatal, startW, starting, page, requested,
                    request, attempts, rateLimited, lastStatus, lastWait, emitted,
                    committed, stopW, afterStop, fn_in, fn_out, childVars >>

\* n tickets with lastUpdatedOn t are modified: their lastUpdatedOn becomes t2 > t
TouchTickets(t, t2, n) ==
    /\ pc = "Idle"
    /\ t2 > t
    /\ IF n = 1 THEN tickets[t] % per_page >= 1 ELSE tickets[t] \div per_page >= 1
    /\ tickets' = [tickets EXCEPT ![t] = @ - n, ![t2] = @ + n]
    /\ UNCHANGED << start_date, state, pc, fatal, startW, starting, page, requested,
                    request, attempts, rateLimited, lastStatus, lastWait, emitted,
                    committed, stopW, afterStop, fn_in, fn_out, childVars >>

\* Tap.sync_all / Stream.sync up to the first prepared request
StartRun ==
    /\ pc = "Idle"
    /\ state' = reset_progress(state)
    /\ startW' = state.replication_key_value
    /\ starting' = get_starting_timestamp(state, start_date)
    /\ page' = 1                                  \* BoldDeskPaginator(start_value=1)
    /\ requested' = << 1 >>
    /\ request' = tickets_url_params(1, get_starting_timestamp(state, start_date))
    /\ attempts' = 0
    /\ rateLimited' = 0
    /\ lastStatus' = 0
    /\ lastWait' = 0
    /\ emitted' = NoTickets
    /\ committed' = {}
    /\ pc' = "Fetching"
    /\ fatal' = ""
    /\ UNCHANGED << tickets, start_date, stopW, afterStop, fn_in, fn_out, childVars >>

\* bookkeeping of a run that stops before its paginator is finished
Stopped(kind) ==
    /\ pc' = "Fatal"
    /\ fatal' = kind
    /\ stopW' = IF afterStop THEN stopW ELSE startW
    /\ afterStop' = TRUE

\* the request is sent and answered 200
Receive200 ==
    /\ pc = "Fetching"
    /\ validate_response(200) = "ok"
    /\ attempts' = attempts + 1
    /\ lastStatus' = 200
    /\ pc' = "Emitting"
    /\ UNCHANGED << tickets, start_date, state, fatal, startW, starting, page, requested,
                    request, rateLimited, lastWait, emitted, committed, stopW, afterStop,
                    fn_in, fn_out, childVars >>

\* the request is sent and answered with an error status: validate_response
\* raises the fatal or the retriable error; a retriable one is retried after the
\* wait _backoff_from_headers computes, unless the tries are used up
ReceiveError(status, header, now) ==
    /\ pc = "Fetching"
    /\ validate_response(status) # "ok"
    /\ attempts' = attempts + 1
    /\ rateLimited' = IF status = 429 THEN rateLimited + 1 ELSE rateLimited
    /\ lastStatus' = status
    /\ LET wait == backoff_from_headers(
                       [has_response |-> TRUE, status |-> status, header |-> header], now)
       IN  IF validate_response(status) = "fatal"
           THEN /\ Stopped("Client")
                /\ lastWait' = lastWait
           ELSE IF attempts + 1 >= backoff_max_tries
           THEN \* the decorator gives up and re-raises
                /\ Stopped(IF status = 429 THEN "RateLimit" ELSE "Server")
                /\ lastWait' = lastWait
           ELSE IF wait.raised
           THEN /\ Stopped("Backoff")
                /\ lastWait' = lastWait
           ELSE /\ pc' = "ErrorRecovery"
                /\ lastWait' = wait.value
                /\ UNCHANGED << fatal, stopW, afterStop >>
    /\ UNCHANGED << tickets, start_date, state, startW, starting, page, requested,
                    request, emitted, committed, fn_in, fn_out, childVars >>

\* the request is sent and fails without a response (connection error, timeout)
ReceiveNothing ==
    /\ pc = "Fetching"
    /\ attempts' = attempts + 1
    /\ LET wait == backoff_from_headers(
                       [has_response |-> FALSE, status |-> 0, header |-> NoHeader], 0)
       IN  IF attempts + 1 >= backoff_max_tries
           THEN /\ Stopped("Network")
                /\ lastWait' = lastWait
           ELSE IF wait.raised
           THEN /\ Stopped("Backoff")
                /\ lastWait' = lastWait
           ELSE /\ pc' = "ErrorRecovery"
                /\ lastWait' = wait.value
                /\ UNCHANGED << fatal, stopW, afterStop >>
    /\ UNCHANGED << tickets, start_date, state, startW, starting, page, requested,
                    request, rateLimited, lastStatus, emitted, committed, fn_in, fn_out, childVars >>

\* the backoff sleep is over: the same prepared request is sent again
Retry ==
    /\ pc = "ErrorRecovery"
    /\ pc' = "Fetching"
    /\ lastWait' = 0
    /\ UNCHANGED << tickets, start_date, state, fatal, startW, starting, page, requested,
                    request, attempts, rateLimited, lastStatus, emitted, committed,
                    stopW, afterStop, fn_in, fn_out, childVars >>

\* every record of the response is emitted, then paginator.advance(response)
EmitPage ==
    /\ pc = "Emitting"
    /\ LET rec == PageRecords(tickets, request)
           response == [has_count |-> TRUE, count |-> MatchCount(tickets, request)]
           st == StateAfterRecords(state, rec, Times, request)
       IN  /\ emitted' = [t \in Times |-> emitted[t] + rec[t]]
           /\ committed' = committed \cup {page}
           /\ IF has_more(response, page)
              THEN /\ page' = get_next(page)
                   /\ requested' = Append(requested, get_next(page))
                   /\ request' = tickets_url_params(get_next(page),
                                  starting_timestamp_of_run(st, starting))
                   /\ attempts' = 0
                   /\ rateLimited' = 0
                   /\ state' = st
                   /\ pc' = "Fetching"
                   /\ UNCHANGED << stopW, afterStop >>
              ELSE /\ state' = finalize_state(st)
                   /\ pc' = "Done"
                   /\ UNCHANGED << page, requested, request, attempts, rateLimited,
                                   stopW, afterStop >>
    /\ UNCHANGED << tickets, start_date, fatal, startW, starting, lastStatus, lastWait,
                    fn_in, fn_out, childVars >>

\* the process is interrupted; while a page is being emitted its first k
\* records have been emitted and counted into the state
Interrupt(k) ==
    /\ Running
    /\ IF pc = "Emitting"
       THEN /\ k < PageSize(tickets, request)
            /\ emitted' = [t \in Times |->
                              emitted[t] + PagePrefix(tickets, request, k)[t]]
            /\ state' = StateAfterRecords(state, PagePrefix(tickets, request, k),
                                          Times, request)
       ELSE /\ k = 0
            /\ UNCHANGED << emitted, state >>
    /\ Stopped("Interrupted")
    /\ UNCHANGED << tickets, start_date, startW, starting, page, requested, request,
                    attempts, rateLimited, lastStatus, lastWait, committed, fn_in, fn_out, childVars >>

\* the process has ended: of the run only the persisted state remains
Exit ==
    /\ pc \in {"Done", "Fatal"}
    /\ pc' = "Idle"
    /\ fatal' = ""
    /\ startW' = NoTime
    /\ starting' = NoTime
    /\ page' = 0
    /\ requested' = << >>
    /\ request' = NoRequest
    /\ attempts' = 0
    /\ rateLimited' = 0
    /\ lastStatus' = 0
    /\ lastWait' = 0
    /\ emitted' = NoTickets
    /\ committed' = {}
    /\ stopW' = IF pc = "Done" THEN NoTime ELSE stopW
    /\ afterStop' = IF pc = "Done" THEN FALSE ELSE afterStop
    /\ UNCHANGED << tickets, start_date, state, fn_in, fn_out, childVars >>

Next ==
    \/ StartRun
    \/ Receive200
    \/ \E status \in ErrorStatuses, header \in MainHeaders, now \in MainNows :
          ReceiveError(status, header, now)
    \/ ReceiveNothing
    \/ Retry
    \/ EmitPage
    \/ \E k \in 0..MaxPartial : Interrupt(k)
    \/ Exit

Spec == Init /\ [][Next]_vars

NextSync ==
    \/ \E t \in Times, n \in {1, per_page} : CreateTickets(t, n)
    \/ \E t \in Times, t2 \in Times, n \in {1, per_page} : TouchTickets(t, t2, n)
    \/ StartRun
    \/ Receive200
    \/ \E status \in {429} \cup FatalStatuses : ReceiveError(status, NoHeader, 0)
    \/ Retry
    \/ EmitPage
    \/ \E k \in 0..MaxPartial : Interrupt(k)
    \/ Exit

SpecSync == InitSync /\ [][NextSync]_vars

(***************************************************************************)
(* SpecChild: the tickets stream as parent of the messages stream          *)
(* (streams.py 13-26, 157-177, 346-353).  For every ticket record the      *)
(* parent yields, the messages stream is synced with the context           *)
(* get_child_context builds from the record, before the parent goes on to  *)
(* its next record.  The sync of the messages of one ticket is the request *)
(* loop of BoldDeskStream with the paginator of client.py 74-76 and the    *)
(* URL parameters of MessagesStream.get_url_params.                        *)
(*                                                                         *)
(* A context is a function from its keys to their values, << >> is the     *)
(* context with no key.  In a parameter record 0 / FALSE stand for a       *)
(* parameter that is not sent.                                             *)
(***************************************************************************)
MaxParents == 2
MaxMsgBlocks == 2

TicketIds == 1..MaxParents

\* numbers of messages a ticket can have: none, or a half-filled last page
\* after 0..MaxMsgBlocks full pages
MsgCounts == {0} \cup {k * per_page + 50 : k \in 0..MaxMsgBlocks}

\* a ticket record: of its fields, the id and one other integer field
TicketRecord(id) == [ticketId |-> id, slaBreachedCount |-> 0]

\* a get_child_context that takes the value from another field of the record
get_child_context_other_field(record, parent_context) ==
    [k \in {"ticketId"} |-> record.slaBreachedCount]

\* TicketsStream.get_child_context (streams.py 22-26)
get_child_context(record, parent_context) ==
    [k \in {"ticketId"} |-> record.ticketId]

\* path = "/{ticketId}/messages" (streams.py 166): the ticket a request of the
\* messages stream addresses
messages_path(ctx) == ctx["ticketId"]

\* MessagesStream.get_url_params (streams.py 346-353): no parameter at all
messages_url_params(next_page_token) ==
    [PerPage |-> 0, RequiresCounts |-> FALSE, Page |-> 0]

\* state_partitioning_keys left at its default: the whole context is the key
state_partition_context_default(ctx) == ctx

\* state_partitioning_keys = [] (streams.py 174-177): the part of the context
\* that keys the state of the messages stream
state_partitioning_keys == {}

state_partition_context(ctx) ==
    [k \in (DOMAIN ctx) \cap state_partitioning_keys |-> ctx[k]]

\* the partition entries a sync with context ctx adds to the persisted state:
\* none when the partition context is empty (the state of the stream is used)
StatePartitions(ctx) ==
    IF DOMAIN state_partition_context(ctx) = {} THEN {}
    ELSE {state_partition_context(ctx)}

\* the server answering a request of the messages stream: the page it
\* delivers and the body's count
MessagesPage(req) == IF req.params.Page = 0 THEN 1 ELSE req.params.Page

MessagesResponse(req) ==
    [has_count |-> req.params.RequiresCounts \/ countsAlways,
     count |-> IF req.ticketId \in DOMAIN msgs THEN msgs[req.ticketId] ELSE 0]

LastRequest == crequests[Len(crequests)]

InitChild ==
    /\ MainInit
    /\ tickets = NoTickets
    /\ start_date = NoTime
    /\ fn_in = NoProbe
    /\ fn_out = NoProbe
    /\ catalog \in {c \in [TicketIds -> TicketIds] : \A i, j \in TicketIds :
                                                       c[i] = c[j] => i = j}
    /\ msgs \in [TicketIds -> MsgCounts]
    /\ countsAlways \in BOOLEAN
    /\ cpc = "Parent"
    /\ parents = << >>
    /\ visits = << >>
    /\ context = << >>
    /\ cpage = 0
    /\ crequests = << >>
    /\ cdelivered = << >>
    /\ partitions = {}

\* a request of the messages sync under way, prepared with the paginator's value
MessagesRequest(ctx, next_page_token) ==
    [ticketId |-> messages_path(ctx), params |-> messages_url_params(next_page_token)]

\* the tickets stream yields its next record: the record is emitted and the
\* messages stream is synced with the record's child context, up to the first
\* prepared request
ParentRecord ==
    /\ cpc = "Parent"
    /\ Len(parents) < Len(catalog)
    /\ LET record == TicketRecord(catalog[Len(parents) + 1])
           ctx == get_child_context(record, << >>)
       IN  /\ parents' = Append(parents, record.ticketId)
           /\ context' = ctx
           /\ visits' = Append(visits, messages_path(ctx))
           /\ partitions' = partitions \cup StatePartitions(ctx)
           /\ cpage' = 1                          \* BoldDeskPaginator(start_value=1)
           /\ crequests' = << MessagesRequest(ctx, 1) >>
           /\ cdelivered' = << >>
           /\ cpc' = "Child"
    /\ UNCHANGED << mainVars, fn_in, fn_out, catalog, msgs, countsAlways >>

\* the request of the messages sync is answered 200: the page is emitted, then
\* paginator.advance(response); a finished paginator ends the sync of this
\* ticket's messages and the parent goes on
ChildReceive ==
    /\ cpc = "Child"
    /\ cdelivered' = Append(cdelivered, MessagesPage(LastRequest))
    /\ IF has_more(MessagesResponse(LastRequest), cpage)
       THEN /\ cpage' = get_next(cpage)
            /\ crequests' = Append(crequests, MessagesRequest(context, get_next(cpage)))
            /\ cpc' = "Child"
       ELSE /\ cpc' = "Parent"
            /\ UNCHANGED << cpage, crequests >>
    /\ UNCHANGED << mainVars, fn_in, fn_out, catalog, msgs, countsAlways, parents,
                    visits, context, partitions >>

\* the request of the messages sync ends in an error that is not retried any
\* more: the error leaves the sync of the parent as well
ChildFails ==
    /\ cpc = "Child"
    /\ cpc' = "Aborted"
    /\ UNCHANGED << mainVars, fn_in, fn_out, catalog, msgs, countsAlways, parents,
                    visits, context, cpage, crequests, cdelivered, partitions >>

\* the tickets stream has no further record
ParentEnd ==
    /\ cpc = "Parent"
    /\ Len(parents) = Len(catalog)
    /\ cpc' = "End"
    /\ UNCHANGED << mainVars, fn_in, fn_out, catalog, msgs, countsAlways, parents,
                    visits, context, cpage, crequests, cdelivered, partitions >>

NextChild ==
    \/ ParentRecord
    \/ ChildReceive
    \/ ChildFails
    \/ ParentEnd

SpecChild == InitChild /\ [][NextChild]_vars

(***************************************************************************)
(* The two functions evaluated on their own.                               *)
(***************************************************************************)
Responses ==
    {[has_count |-> FALSE, count |-> 0]}
        \cup {[has_count |-> TRUE, count |-> c] : c \in 0..MaxCount}

InitPaginator ==
    /\ MainInit
    /\ tickets = NoTickets
    /\ start_date = NoTime
    /\ fn_in \in [kind : {"has_more"}, response : Responses, current_value : 1..MaxPage]
    /\ fn_out = NoProbe
    /\ ChildOff

\* BoldDeskPaginator.has_more(response) with current_value = fn_in.current_value
ApplyHasMore ==
    /\ fn_in.kind = "has_more"
    /\ fn_out = NoProbe
    /\ fn_out' = [kind |-> "has_more",
                  value |-> has_more(fn_in.response, fn_in.current_value)]
    /\ UNCHANGED << mainVars, fn_in, childVars >>

SpecPaginator == InitPaginator /\ [][ApplyHasMore]_vars

ResetWalls == {h * 500 : h \in 0..MaxResetHalf}
Clock == {h * 500 : h \in 0..MaxNowHalf}

ResetHeaders ==
    {[kind |-> k, wall |-> 0, offset |-> 0] : k \in {"absent", "empty", "garbage"}}
        \cup {[kind |-> k, wall |-> w, offset |-> 0] :
                 k \in {"naive", "zulu"}, w \in ResetWalls}
        \cup {[kind |-> "offset", wall |-> w, offset |-> o] :
                 w \in ResetWalls, o \in UtcOffsets}

RetriableErrors ==
    {[has_response |-> FALSE, status |-> 0, header |-> NoHeader]}
        \cup {[has_response |-> TRUE, status |-> s, header |-> h] :
                 s \in {429} \cup ServerErrorStatuses, h \in ResetHeaders}

InitBackoff ==
    /\ MainInit
    /\ tickets = NoTickets
    /\ start_date = NoTime
    /\ fn_in \in [kind : {"backoff"}, err : RetriableErrors, now : Clock]
    /\ fn_out = NoProbe
    /\ ChildOff

\* _backoff_from_headers(retriable_api_error) when datetime.now() is fn_in.now
ApplyBackoff ==
    /\ fn_in.kind = "backoff"
    /\ fn_out = NoProbe
    /\ fn_out' = [kind |-> "backoff",
                  result |-> backoff_from_headers(fn_in.err, fn_in.now)]
    /\ UNCHANGED << mainVars, fn_in, childVars >>

SpecBackoff == InitBackoff /\ [][ApplyBackoff]_vars

(***************************************************************************)
(* Properties.                                                             *)
(***************************************************************************)
\* the least n with n * d >= c
CeilDiv(c, d) == CHOOSE n \in 0..c : n * d >= c /\ \A m \in 0..c : m * d >= c => n <= m

\* C1 (SpecPaginator): for every reported count C >= 0 and current page P >= 1,
\* has_more is true exactly when P < ceil(C / 100); without a count field, or
\* with count 0, has_more is false.
C1_HasMoreIffBelowCeil ==
    fn_out.kind = "has_more" =>
        LET C == IF fn_in.response.has_count THEN fn_in.response.count ELSE 0
            P == fn_in.current_value
        IN  /\ fn_out.value <=> (P < CeilDiv(C, 100))
            /\ (~fn_in.response.has_count \/ fn_in.response.count = 0) => ~fn_out.value

C1_Witness ==
    /\ fn_out.kind = "has_more"
    /\ fn_in.response.has_count
    /\ fn_in.response.count = 250
    /\ fn_in.current_value = 2
    /\ fn_out.value

\* C2 (Spec): within one run the page numbers requested are 1, 2, 3, ... in
\* this order, each once, and a page after the first is requested only if it
\* is at most ceil(count / 100) for the count the server reports.
C2_PagesIncreaseWithinCount ==
    /\ \A i \in 1..Len(requested) : requested[i] = i
    /\ Len(requested) > 1 =>
           requested[Len(requested)] <= CeilDiv(MatchCount(tickets, request), 100)

C2_Witness ==
    /\ pc = "Done"
    /\ requested = << 1, 2, 3 >>
    /\ attempts > 1

\* C3 (Spec): a request is sent at most five times; when five attempts of one
\* request were answered 429 the run is Fatal for rate limiting, the page is
\* not committed, no record of it is emitted and the bookmark is the one the
\* run began with.
C3_RetryExhaustion ==
    /\ attempts <= 5
    /\ rateLimited = 5 =>
           /\ pc = "Fatal"
           /\ fatal = "RateLimit"
           /\ page \notin committed
           /\ SumOver(emitted, Times) = (page - 1) * 100
           /\ state.replication_key_value = startW

C3_Witness ==
    /\ rateLimited = 5
    /\ pc = "Fatal"
    /\ page = 2
    /\ committed = {1}

\* the instant an ISO timestamp with a timezone denotes
HeaderInstant(header) == header.wall - header.offset

\* C4 (SpecBackoff): for a 429 whose reset header is an ISO timestamp with a
\* timezone the delay is max(0, (reset - now) + 2 s) cut to whole seconds:
\* never negative, 0 when the reset lies 2 s or more in the past, 39 when the
\* reset is 37 s ahead.
C4_DelayFromResetHeader ==
    (/\ fn_out.kind = "backoff"
     /\ fn_in.err.has_response
     /\ fn_in.err.status = 429
     /\ fn_in.err.header.kind \in {"zulu", "offset"}) =>
        LET d == HeaderInstant(fn_in.err.header) - fn_in.now
            v == fn_out.result.value
        IN  /\ ~fn_out.result.raised
            /\ v >= 0
            /\ d <= 0 - 2000 => v = 0
            /\ d + 2000 >= 0 => (v * 1000 <= d + 2000 /\ d + 2000 < (v + 1) * 1000)
            /\ d = 37000 => v = 39

C4_Witness ==
    /\ fn_out.kind = "backoff"
    /\ fn_in.err.has_response
    /\ fn_in.err.status = 429
    /\ fn_in.err.header.kind = "zulu"
    /\ fn_in.err.header.wall - fn_in.now = 37000
    /\ fn_out.result.value = 39

\* C5 (SpecBackoff): for a failed response that is not a 429, a 429 without the
\* reset header, or a 429 whose reset header cannot be parsed or carries no
\* timezone, the delay function returns 0 and raises nothing.
C5_FallbackIsZero ==
    (/\ fn_out.kind = "backoff"
     /\ fn_in.err.has_response
     /\ \/ fn_in.err.status # 429
        \/ fn_in.err.header.kind \in {"absent", "empty", "garbage", "naive"}) =>
        /\ ~fn_out.result.raised
        /\ fn_out.result.value = 0

C5_Witness ==
    /\ fn_out.kind = "backoff"
    /\ fn_in.err.has_response
    /\ fn_in.err.status = 500
    /\ fn_in.err.header.kind = "zulu"
    /\ fn_in.err.header.wall > fn_in.now
    /\ fn_out.result.value = 0

\* C6 (SpecSync), as claimed: without a bookmark the request orders ascending
\* by creation time and its only lower bound is the configured start date;
\* with a bookmark it orders descending by lastUpdatedOn and its lower bound
\* is exactly the bookmark.
C6_ParamsDependOnMode ==
    pc = "Fetching" =>
        IF startW = NoTime
        THEN /\ request.OrderBy = "createdOn"
             /\ request.sort = "asc"
             /\ request.Q_from = start_date
        ELSE /\ request.OrderBy = "lastUpdatedOn"
             /\ request.sort = "desc"
             /\ request.Q_from = startW

WmLeq(a, b) == a = NoTime \/ (b # NoTime /\ a <= b)

\* the largest lastUpdatedOn among the records em counts (NoTime: none)
MaxOf(em) ==
    IF \A t \in Times : em[t] = 0 THEN NoTime
    ELSE CHOOSE t \in Times : em[t] > 0 /\ \A u \in Times : em[u] > 0 => u <= t

\* C7 (SpecSync): no step of any run lowers the persisted bookmark, and a run
\* that completes having observed a largest lastUpdatedOn above the bookmark
\* it began with persists exactly that value.
C7_WatermarkMonotonic ==
    [][/\ WmLeq(state.replication_key_value, state'.replication_key_value)
       /\ (/\ pc = "Emitting"
           /\ pc' = "Done"
           /\ MaxOf(emitted') # NoTime
           /\ startW = NoTime \/ MaxOf(emitted') > startW)
              => state'.replication_key_value = MaxOf(emitted')]_vars

C7_Witness ==
    /\ pc = "Done"
    /\ startW # NoTime
    /\ state.replication_key_value > startW
    /\ state.replication_key_value = MaxOf(emitted)
    /\ Cardinality(committed) = 2

\* C8 (SpecSync): a run that stops before its paginator is finished leaves the
\* persisted bookmark as it found it, and the next run that completes emits
\* every ticket whose lastUpdatedOn is at or after the bookmark that was
\* persisted before the stopped run.
C8_NoLossAfterStoppedRun ==
    /\ pc = "Fatal" => state.replication_key_value = startW
    /\ (pc = "Done" /\ afterStop /\ stopW # NoTime) =>
           \A t \in Times : t >= stopW => emitted[t] = tickets[t]

C8_Witness ==
    /\ pc = "Done"
    /\ afterStop
    /\ stopW # NoTime
    /\ Cardinality(committed) = 2
    /\ \E t \in Times : t > stopW /\ tickets[t] >= 100 /\ emitted[t] = tickets[t]
    /\ \E t \in Times : t >= stopW /\ tickets[t] = 1 /\ emitted[t] = 1

\* C9 (SpecSync), as claimed: a run that began with bookmark W emits no ticket
\* whose lastUpdatedOn is strictly less than W.
C9_NothingBelowWatermarkReemitted ==
    startW # NoTime => \A t \in Times : t < startW => emitted[t] = 0

\* C10 (Spec), as claimed: after a response 401, 404 or 500 the run is Fatal.
C10_NonToleratedNeverRetried ==
    lastStatus \in {401, 404, 500} => pc = "Fatal"

SendsRequest ==
    \/ Receive200
    \/ \E status \in ErrorStatuses, header \in MainHeaders, now \in MainNows :
          ReceiveError(status, header, now)
    \/ ReceiveNothing

\* C10 (Spec), amended: after a response 401 or 404 the run is Fatal at once,
\* it never is in ErrorRecovery and no further request can be sent in it.
C10_ClientErrorNeverRetried ==
    lastStatus \in {401, 404} =>
        /\ pc = "Fatal"
        /\ fatal = "Client"
        /\ ~ENABLED SendsRequest
        /\ ~ENABLED Retry

C10_Witness ==
    /\ lastStatus = 404
    /\ pc = "Fatal"
    /\ attempts = 3
    /\ rateLimited = 2

\* C11 (Spec), as claimed: a request that fails without a response is retried
\* like a rate-limited one: the backoff computation never fails, and such a
\* failure ends the run only when it was the fifth attempt of the request.
C11_ConnectionFailureRetried ==
    /\ fatal # "Backoff"
    /\ fatal = "Network" => attempts = 5

\* what the retry loop sleeps when the backoff computation returned value:
\* backoff_runtime yields value as the wait, and the jitter draws from [0, value]
backoff_runtime(value) == 0..value

\* C12 (Spec), as claimed: when the backoff computation returned the sentinel 0,
\* the wait before the request is sent again is positive.
C12_SentinelMeansExponential ==
    (pc = "ErrorRecovery" /\ lastWait = 0) =>
        \A slept \in backoff_runtime(lastWait) : slept > 0

\* C17 (Spec), as claimed: every tickets request carries PerPage = 100 and
\* RequiresCounts = true; the Page parameter is left out of exactly the first
\* request of a run, and in every later request it is the paginator's page.
C17_PageOmittedOnFirstRequest ==
    Running =>
        /\ request.PerPage = 100
        /\ request.RequiresCounts
        /\ (request.Page = 0) <=> (Len(requested) = 1)
        /\ Len(requested) > 1 => request.Page = page

\* C17 (Spec), amended: every tickets request carries PerPage = 100,
\* RequiresCounts = true and a Page parameter, the first request included
\* (Page = 1); Page is always the page the paginator is on, which is the page
\* the request was prepared for.
C17_PageAlwaysSent ==
    Running =>
        /\ request.PerPage = 100
        /\ request.RequiresCounts
        /\ request.Page >= 1
        /\ request.Page = page
        /\ request.Page = requested[Len(requested)]
        /\ Len(requested) = 1 => request.Page = 1

C17_Witness ==
    /\ pc = "Fetching"
    /\ Len(requested) = 3
    /\ request.Page = 3
    /\ committed = {1, 2}

\* the lower bound a run sends when it began with bookmark w and the
\* configured start_date d
BoundOfRun(w, d) ==
    IF w # NoTime THEN (w \div 1000) * 1000
    ELSE IF d # NoTime THEN (d \div 1000) * 1000
    ELSE NoTime

\* C18 (SpecSync): every request of a run carries OrderBy = lastUpdatedOn and
\* sort = desc, and its Q bound is the one derived from the bookmark (or the
\* start_date) the run began with; from one request of a run to the next the
\* three parameters do not change, whatever the emitted records have made of
\* the progress marker.
C18_FilterFixedWithinRun ==
    [][/\ Running' =>
             /\ request'.OrderBy = "lastUpdatedOn"
             /\ request'.sort = "desc"
             /\ request'.Q_from = BoundOfRun(startW', start_date')
             /\ (request'.Q_field = "updatedon") <=> (request'.Q_from # NoTime)
       /\ (Running /\ Running') =>
             /\ request'.OrderBy = request.OrderBy
             /\ request'.sort = request.sort
             /\ request'.Q_field = request.Q_field
             /\ request'.Q_from = request.Q_from]_vars

C18_Witness ==
    /\ pc = "Fetching"
    /\ page = 2
    /\ startW # NoTime
    /\ state.progress # NoTime
    /\ state.progress > startW
    /\ request.Q_from = (startW \div 1000) * 1000
    /\ request.Q_from < state.progress

(***************************************************************************)
(* SpecLive: the runs of Spec under the scheduling of the code.  The sync  *)
(* is one sequential loop: a request that was sent is answered or fails    *)
(* (the HTTP layer has its own timeout), a backoff sleep ends, and a       *)
(* received page is emitted.  Interrupt is not subject to fairness.        *)
(***************************************************************************)
SpecLive ==
    /\ Init
    /\ [][Next]_vars
    /\ WF_vars(SendsRequest)
    /\ WF_vars(Retry)
    /\ WF_vars(EmitPage)

Terminal == pc \in {"Done", "Fatal"}

\* pages the paginator still has to leave, weighted by the steps a page can
\* take (5 attempts, each followed by a sleep or by the emission), plus the
\* steps left for the current page
RunMeasure ==
    (Max2(total_pages(MatchCount(tickets, request)), 1) - page) * 12
        + (CASE pc = "Fetching" -> 2 * (5 - attempts) + 1
             [] pc = "ErrorRecovery" -> 2 * (5 - attempts) + 2
             [] OTHER -> 0)

\* C14 (SpecLive): every run reaches Done or Fatal; in a terminal state no
\* request can be sent and no retry is pending; and while a run is under way
\* every step of it lowers a measure that is never negative (the pages left
\* and the attempts left of the 5 for the current page).
C14_RunTerminates ==
    /\ Running ~> Terminal
    /\ [](Terminal => (~ENABLED SendsRequest /\ ~ENABLED Retry /\ ~ENABLED EmitPage))
    /\ [](Running => RunMeasure >= 0)
    /\ [][(Running /\ Running') => RunMeasure' < RunMeasure]_vars

C14_Witness ==
    /\ pc = "Fatal"
    /\ fatal = "RateLimit"
    /\ attempts = 5
    /\ rateLimited = 5
    /\ page = 2

\* C13 (SpecChild), as claimed: every request of the messages stream carries
\* the paging parameters a request of the tickets stream carries for the same
\* paginator value; within the visit of one parent no page is delivered
\* twice, and when the visit is over the pages delivered are exactly
\* 1..ceil(C/100) for the C messages of the parent (page 1 alone when C = 0).
C13_ChildPaginationAsParent ==
    cpc \in {"Child", "Parent"} /\ visits # << >> =>
        /\ \A i \in 1..Len(crequests) : crequests[i].params = base_url_params(i)
        /\ \A i, j \in 1..Len(cdelivered) : cdelivered[i] = cdelivered[j] => i = j
        /\ cpc = "Parent" =>
              LET C == msgs[parents[Len(parents)]]
              IN  cdelivered = [i \in 1..Max2(CeilDiv(C, 100), 1) |-> i]

\* C15 (SpecChild): the messages stream is synced once for every emitted
\* ticket record, in the order of emission; every request issued while a
\* parent is visited addresses that parent's ticketId; the context of a visit
\* has the one key ticketId and holds the id of the current parent, never
\* that of an earlier one.
C15_ChildPerParentInOrder ==
    /\ visits = parents
    /\ \A i \in 1..Len(parents) : parents[i] = catalog[i]
    /\ visits # << >> =>
          /\ DOMAIN context = {"ticketId"}
          /\ context["ticketId"] = parents[Len(parents)]
          /\ \A i \in 1..Len(crequests) :
                crequests[i].ticketId = parents[Len(parents)]

C15_Witness ==
    /\ cpc = "Child"
    /\ parents = << 2, 1 >>
    /\ visits = << 2, 1 >>
    /\ Len(crequests) = 2
    /\ crequests[2].ticketId = 1

\* C16 (SpecChild): the persisted state never holds a partition entry for the
\* messages stream, however many parent tickets have been visited; the state
\* of the tickets stream is its one bookmark.
C16_NoPartitionedState ==
    /\ partitions = {}
    /\ DOMAIN state = {"replication_key_value", "progress"}

C16_Witness ==
    /\ cpc = "End"
    /\ Len(visits) = 2
    /\ visits[1] # visits[2]
    /\ partitions = {}

====
